---- MODULE Spec2Model ----
(***************************************************************************)
(* Model of inria/models/unet.py: the import of the module (the @Model     *)
(* decorators registering the factories), a call of a factory              *)
(* (instantiate the backbone, adapt the input channels, construct the      *)
(* UnetSegmentationModel), a direct construction of UnetSegmentationModel, *)
(* and UnetSegmentationModel.forward, one action per source line.          *)
(*                                                                         *)
(* Tensors are modelled by their shapes.  Dropout rates are in percent     *)
(* (0.25 is 25).  An optional keyword argument is a set: {} when the call  *)
(* does not pass it, {v} when it passes v.                                 *)
(***************************************************************************)
EXTENDS Integers, Sequences, FiniteSets, TLC

\* ------------------------------------------------------------------ bounds
MaxBatch == 2
MaxH == 3
MaxW == 2
MaxClasses == 2

\* Input channel counts a caller asks for: the default 3 and two others.
InputChannelChoices == {1, 3, 4}
\* Stride of the finest feature map of a backbone (fixed by the encoder
\* library per backbone and layer choice).
Strides == {2, 4}
\* The caller leaves dropout to the factory's default ({}), or passes 0.25.
DropoutChoices == {{}, {25}}

\* ------------------------------------------------------- module constants
OUTPUT_MASK_KEY == "OUTPUT_MASK_KEY"
ACT_RELU == "relu"
ACT_SWISH == "swish"

\* __all__, lines 15-29
ModuleAll ==
    { "UnetSegmentationModel",
      "resnet18_unet32", "resnet34_unet32", "resnet50_unet32",
      "resnet101_unet64", "resnet152_unet32",
      "densenet121_unet32", "densenet161_unet32", "densenet169_unet32",
      "densenet201_unet32",
      "b0_unet32", "b5_unet32", "b5_unet32_relu" }

\* The decorated function definitions, in source order.
FactoryDefs ==
    << "resnet18_unet32", "resnet34_unet32", "resnet50_unet32",
       "resnet101_unet64", "resnet152_unet32",
       "densenet121_unet32", "densenet161_unet32", "densenet169_unet32",
       "densenet201_unet32",
       "hrnet18_unet32", "hrnet34_unet32", "hrnet48_unet32",
       "b0_unet32", "b5_unet32", "b5_unet32_relu" >>

Factories == { FactoryDefs[i] : i \in 1..Len(FactoryDefs) }

ResNetFactories ==
    { "resnet18_unet32", "resnet34_unet32", "resnet50_unet32",
      "resnet101_unet64", "resnet152_unet32" }
DenseNetFactories ==
    { "densenet121_unet32", "densenet161_unet32", "densenet169_unet32",
      "densenet201_unet32" }
HRNetFactories == { "hrnet18_unet32", "hrnet34_unet32", "hrnet48_unet32" }
EfficientNetFactories == { "b0_unet32", "b5_unet32", "b5_unet32_relu" }

\* ------------------------------------------------- what each factory passes
\* The backbone class instantiated on the first line of the factory.
BackboneClass(f) ==
    CASE f = "resnet18_unet32"    -> "Resnet18Encoder"
      [] f = "resnet34_unet32"    -> "Resnet34Encoder"
      [] f = "resnet50_unet32"    -> "Resnet50Encoder"
      [] f = "resnet101_unet64"   -> "Resnet101Encoder"
      [] f = "resnet152_unet32"   -> "Resnet152Encoder"
      [] f = "densenet121_unet32" -> "DenseNet121Encoder"
      [] f = "densenet161_unet32" -> "DenseNet161Encoder"
      [] f = "densenet169_unet32" -> "DenseNet169Encoder"
      [] f = "densenet201_unet32" -> "DenseNet201Encoder"
      [] f = "hrnet18_unet32"     -> "HRNetV2Encoder18"
      [] f = "hrnet34_unet32"     -> "HRNetV2Encoder34"
      [] f = "hrnet48_unet32"     -> "HRNetV2Encoder48"
      [] f = "b0_unet32"          -> "EfficientNetB0Encoder"
      [] f = "b5_unet32"          -> "EfficientNetB5Encoder"
      [] f = "b5_unet32_relu"     -> "EfficientNetB5Encoder"

\* pretrained=pretrained is passed by the ResNet, DenseNet and HRNet
\* factories; the EfficientNet factories call the backbone without it.
PretrainedKwarg(f, pretrained) ==
    IF f \in EfficientNetFactories THEN {} ELSE {pretrained}

\* layers=[0, 1, 2, 3, 4] is passed by the ResNet and DenseNet factories.
LayersKwarg(f) ==
    IF f \in ResNetFactories \cup DenseNetFactories
    THEN {<<0, 1, 2, 3, 4>>} ELSE {}

\* activation=ACT_RELU is passed to the backbone by b5_unet32_relu alone.
EncoderActivationKwarg(f) ==
    IF f = "b5_unet32_relu" THEN {ACT_RELU} ELSE {}

\* unet_channels=[...] of the UnetSegmentationModel call.
UnetChannels(f) ==
    IF f \in EfficientNetFactories THEN <<32, 64, 128>>
    ELSE IF f = "resnet101_unet64" THEN <<64, 128, 256, 512>>
    ELSE <<32, 64, 128, 256>>

\* activation of the UnetSegmentationModel call (its default is ACT_RELU).
DecoderActivation(f) ==
    IF f \in {"b0_unet32", "b5_unet32"} THEN ACT_SWISH ELSE ACT_RELU

\* The factory's default for its dropout parameter.
DefaultDropout(f) == IF f = "resnet101_unet64" THEN 50 ELSE 0

\* The dropout the factory body sees: the argument, or the default.
EffectiveDropout(f, dropout) ==
    IF dropout = {} THEN DefaultDropout(f) ELSE CHOOSE d \in dropout : TRUE

\* ---------------------------------------------------------------- tensors
Tensor(b, c, h, w) == [b |-> b, c |-> c, h |-> h, w |-> w]
NoTensor == Tensor(0, 0, 0, 0)

CeilDiv(n, d) == (n + d - 1) \div d

RECURSIVE Pow2(_)
Pow2(n) == IF n = 0 THEN 1 ELSE 2 * Pow2(n - 1)

\* x.size(): the shape of the input, line 60.
Size(t) == <<t.b, t.c, t.h, t.w>>
\* Mutant: the slice taken one place early, x_size[1:3].
SpatialSizeEarly(size) == <<size[2], size[3]>>

\* x_size[2:], line 68.
SpatialSize(size) == <<size[3], size[4]>>

\* ------------------------------------------------------------- the encoder
\* E.<Backbone>(...): the encoder object a factory instantiates.  A fresh
\* backbone takes 3 input channels.
Backbone(f, pretrained) ==
    [ cls         |-> BackboneClass(f),
      pretrained  |-> PretrainedKwarg(f, pretrained),
      layers      |-> LayersKwarg(f),
      activation  |-> EncoderActivationKwarg(f),
      in_channels |-> 3,
      changed     |-> 0 ]

NoEncoder ==
    [ cls |-> "none", pretrained |-> {}, layers |-> {}, activation |-> {},
      in_channels |-> 0, changed |-> 0 ]

\* encoder.change_input_channels(input_channels), called by the factories.
ChangeInputChannels(enc, input_channels) ==
    [enc EXCEPT !.in_channels = input_channels, !.changed = @ + 1]

\* Mutant: only a wider input is adapted.
NeedsChangeWider(input_channels) == input_channels > 3

\* The condition of the factories' if statement.
NeedsChange(input_channels) == input_channels # 3

\* Number of feature maps the encoder returns: one per requested layer; a
\* backbone called without layers uses the encoder library's default, which
\* is one more than the decoder widths its factory passes.
NumFeatureMaps(enc) ==
    IF enc.layers # {} THEN Len(CHOOSE l \in enc.layers : TRUE)
    ELSE IF enc.cls \in {"HRNetV2Encoder18", "HRNetV2Encoder34", "HRNetV2Encoder48"}
    THEN 5 ELSE 4

\* self.encoder(x), line 61: a pyramid of feature maps, the finest first,
\* each level at half the resolution of the one before.  stride is the
\* stride of the finest map.  The widths of the maps (encoder.channels) are
\* the library's and are not tracked.
Encoder(enc, t, stride) ==
    [ i \in 1..NumFeatureMaps(enc) |->
        [ b |-> t.b,
          h |-> CeilDiv(t.h, stride * Pow2(i - 1)),
          w |-> CeilDiv(t.w, stride * Pow2(i - 1)) ] ]

\* self.decoder(x), line 62: UNetDecoder fuses the maps top-down and returns
\* one map per decoder width, the finest first; output i has
\* decoder_features[i] channels at the resolution of encoder map i.
Decoder(decoder_features, maps) ==
    [ i \in 1..Len(decoder_features) |->
        Tensor(maps[i].b, decoder_features[i], maps[i].h, maps[i].w) ]

\* ----------------------------------------------------------- the mask head
\* Mutant: the head reads the coarsest map, x[-1].
HeadInputLast(maps) == maps[Len(maps)]

\* x[0], line 65: the map the head reads.
HeadInput(maps) == maps[1]

\* nn.Dropout2d(dropout): zeroes channels, keeps the shape.
Dropout2d(t) == t

\* conv1x1(in, out) applied to t: a 1x1 convolution keeps batch and spatial
\* size and maps in channels to out channels; any other channel count raises.
Conv1x1(conv, t) ==
    IF t.c = conv.in THEN Tensor(t.b, conv.out, t.h, t.w) ELSE NoTensor

\* F.interpolate(mask, size=..., mode="bilinear"), line 68: resamples the
\* spatial dimensions to size, keeps batch and channels.
Interpolate(t, size) == Tensor(t.b, t.c, size[1], size[2])

\* --------------------------------------------- UnetSegmentationModel(...)
\* unet_channels is Union[int, List[int]]: a tagged value.
IntChannels(n) == [tag |-> "int", val |-> <<n>>]
ListChannels(l) == [tag |-> "list", val |-> l]

\* unet_channels[0], line 54: defined for a list, TypeError for an int.
Subscriptable(unet_channels) == unet_channels.tag = "list"

\* conv1x1(unet_channels[0], num_classes), line 54.
MaskConv(unet_channels, num_classes) ==
    [in |-> unet_channels.val[1], out |-> num_classes]

NoModel ==
    [ kind |-> "none", encoder |-> NoEncoder, decoder_features |-> <<>>,
      conv |-> [in |-> 0, out |-> 0], dropout |-> 0,
      full_size_mask |-> FALSE, activation |-> "none" ]

\* __init__, lines 33-57 (for a subscriptable unet_channels).
UnetSegmentationModel(enc, unet_channels, num_classes, dropout, full, act) ==
    [ kind             |-> "UnetSegmentationModel",
      encoder          |-> enc,
      decoder_features |-> unet_channels.val,
      conv             |-> MaskConv(unet_channels, num_classes),
      dropout          |-> dropout,
      full_size_mask   |-> full,
      activation       |-> act ]

\* ------------------------------------------------------------ the registry
\* Mutant: each registration replaces the registry's content.
RegistryAddReplacing(reg, fn) == << [name |-> fn, factory |-> fn] >>

\* @Model, catalyst's Registry.add: the function is registered under its
\* __name__ and handed back, so the module binds the name to it.
RegistryAdd(reg, fn) == Append(reg, [name |-> fn, factory |-> fn])

Registered(reg, n) == { i \in 1..Len(reg) : reg[i].name = n }

\* ------------------------------------------------------------------- state
VARIABLES
    ipc,        \* number of decorated definitions the import has executed
    registry,   \* the Model registry: the add calls, in order
    defined,    \* names bound in the module's namespace
    pc,         \* position of the caller: which line ran last
    fn,         \* the callable being run: a factory, or the class itself
    args,       \* the arguments the caller passes
    encoder,    \* the factory's local variable encoder
    calls,      \* what the factory body has called so far, in order
    model,      \* the constructed UnetSegmentationModel
    exc,        \* the exception raised, "" when none
    input,      \* forward's argument x
    x_size,     \* forward's local x_size
    x,          \* forward's local x once it holds feature maps
    mask,       \* forward's local mask
    output,     \* forward's return value
    trace,      \* the stages forward has run so far, in order
    produced    \* the masks the stages of forward have produced, in order

vars == << ipc, registry, defined, pc, fn, args, encoder, calls, model, exc,
           input, x_size, x, mask, output, trace, produced >>

callVars == << fn, args, encoder, calls, model, exc >>
fwdVars == << input, x_size, x, mask, output, trace, produced >>
importVars == << ipc, registry, defined >>

NoArgs == [input_channels |-> 0, num_classes |-> 0, dropout |-> {},
           pretrained |-> FALSE, unet_channels |-> {}, full_size_mask |-> {}]

\* What a caller may pass to a factory: the factory's four parameters.
FactoryArgs ==
    [ input_channels : InputChannelChoices,
      num_classes    : 1..MaxClasses,
      dropout        : DropoutChoices,
      pretrained     : BOOLEAN,
      unet_channels  : {{}},
      full_size_mask : {{}} ]

\* What a caller passes to the class: unet_channels, num_classes and
\* full_size_mask (the encoder is passed beside them).
CtorArgs(uc, n, full) ==
    [NoArgs EXCEPT !.num_classes = n, !.unet_channels = {uc},
                   !.full_size_mask = {full}]

\* The module after its imports, __all__ and the class statement have run.
Init ==
    /\ ipc = 0
    /\ registry = <<>>
    /\ defined = {"UnetSegmentationModel"}
    /\ pc = "import"
    /\ fn = ""
    /\ args = NoArgs
    /\ encoder = NoEncoder
    /\ calls = <<>>
    /\ model = NoModel
    /\ exc = ""
    /\ input = NoTensor
    /\ x_size = <<>>
    /\ x = <<>>
    /\ mask = NoTensor
    /\ output = <<>>
    /\ trace = <<>>
    /\ produced = <<>>

\* ------------------------------------------------------------------ import
\* The next "@Model def f(...)" statement of the module body.
DefineFactory ==
    /\ pc = "import"
    /\ ipc < Len(FactoryDefs)
    /\ registry' = RegistryAdd(registry, FactoryDefs[ipc + 1])
    /\ defined' = defined \cup {FactoryDefs[ipc + 1]}
    /\ ipc' = ipc + 1
    /\ UNCHANGED << pc, callVars, fwdVars >>

\* The module body has run to its end.
ImportDone ==
    /\ pc = "import"
    /\ ipc = Len(FactoryDefs)
    /\ pc' = "ready"
    /\ UNCHANGED << importVars, callVars, fwdVars >>

\* --------------------------------------------------------------- factories
\* A caller looks a factory up in the registry and calls it; its first line
\* instantiates the backbone.
InstantiateBackbone ==
    /\ pc = "ready"
    /\ \E i \in 1..Len(registry), a \in FactoryArgs :
         /\ fn' = registry[i].factory
         /\ args' = a
         /\ encoder' = Backbone(registry[i].factory, a.pretrained)
         /\ calls' = << BackboneClass(registry[i].factory) >>
    /\ pc' = "backbone"
    /\ UNCHANGED << importVars, model, exc, fwdVars >>

\* if input_channels != 3: encoder.change_input_channels(input_channels)
AdaptInputChannels ==
    /\ pc = "backbone"
    /\ IF NeedsChange(args.input_channels)
       THEN /\ encoder' = ChangeInputChannels(encoder, args.input_channels)
            /\ calls' = Append(calls, "change_input_channels")
       ELSE UNCHANGED << encoder, calls >>
    /\ pc' = "adapted"
    /\ UNCHANGED << importVars, fn, args, model, exc, fwdVars >>

\* UnetSegmentationModel(...) as a call: the object __init__ builds, or the
\* TypeError line 54 raises on unet_channels[0] when unet_channels is an int.
New(enc, unet_channels, num_classes, dropout, full_size_mask, activation) ==
    IF Subscriptable(unet_channels)
    THEN [ exc   |-> "",
           model |-> UnetSegmentationModel(enc, unet_channels, num_classes,
                                           dropout, full_size_mask, activation) ]
    ELSE [ exc |-> "TypeError", model |-> NoModel ]

\* Mutant: the factory does not forward num_classes.
ConstructorCallOneClass(f, a, enc) ==
    New(enc, ListChannels(UnetChannels(f)), 1,
        EffectiveDropout(f, a.dropout), TRUE, DecoderActivation(f))

\* The call on the factory's last line; full_size_mask is left to its
\* default, True.
ConstructorCall(f, a, enc) ==
    New(enc, ListChannels(UnetChannels(f)), a.num_classes,
        EffectiveDropout(f, a.dropout), TRUE, DecoderActivation(f))

\* return UnetSegmentationModel(encoder, ...)
ReturnModel ==
    /\ pc = "adapted"
    /\ LET r == ConstructorCall(fn, args, encoder) IN
         /\ model' = r.model
         /\ exc' = r.exc
         /\ pc' = IF r.exc = "" THEN "model" ELSE "raised"
    /\ calls' = Append(calls, "UnetSegmentationModel")
    /\ UNCHANGED << importVars, fn, args, encoder, fwdVars >>

\* ------------------------------------------------------ direct construction
\* A caller constructs UnetSegmentationModel itself, on some encoder, with
\* unet_channels an int or a list and full_size_mask of its choice; dropout
\* and activation are left to their defaults, 0.25 and ACT_RELU.
DirectConstruct ==
    /\ pc = "ready"
    /\ \E f \in Factories, n \in 1..MaxClasses, full \in BOOLEAN :
       \E uc \in {IntChannels(32), ListChannels(UnetChannels(f))} :
         LET r == New(Backbone(f, TRUE), uc, n, 25, full, ACT_RELU) IN
           /\ fn' = "UnetSegmentationModel"
           /\ args' = CtorArgs(uc, n, full)
           /\ encoder' = Backbone(f, TRUE)
           /\ model' = r.model
           /\ exc' = r.exc
           /\ pc' = IF r.exc = "" THEN "model" ELSE "raised"
    /\ UNCHANGED << importVars, calls, fwdVars >>

\* ----------------------------------------------------------------- forward
\* Mutant: the mask is upsampled whatever full_size_mask says.
WantsFullSizeAlways(m) == TRUE

\* The condition of line 67.
WantsFullSize(m) == m.full_size_mask

\* x_size = x.size(), line 60: a call of forward on a constructed model, its
\* first or a later one, with fresh locals.  The input has the channel count
\* the encoder takes.
ForwardEnter ==
    /\ pc \in {"model", "returned"}
    /\ \E b \in 1..MaxBatch, h \in 1..MaxH, w \in 1..MaxW :
         /\ input' = Tensor(b, model.encoder.in_channels, h, w)
         /\ x_size' = Size(input')
    /\ x' = <<>>
    /\ mask' = NoTensor
    /\ output' = <<>>
    /\ trace' = <<>>
    /\ produced' = <<>>
    /\ pc' = "sized"
    /\ UNCHANGED << importVars, callVars >>

\* x = self.encoder(x), line 61.
RunEncoder ==
    /\ pc = "sized"
    /\ \E s \in Strides : x' = Encoder(model.encoder, input, s)
    /\ trace' = Append(trace, "encoder")
    /\ pc' = "encoded"
    /\ UNCHANGED << importVars, callVars, input, x_size, mask, output, produced >>

\* x = self.decoder(x), line 62.
RunDecoder ==
    /\ pc = "encoded"
    /\ x' = Decoder(model.decoder_features, x)
    /\ trace' = Append(trace, "decoder")
    /\ pc' = "decoded"
    /\ UNCHANGED << importVars, callVars, input, x_size, mask, output, produced >>

\* mask = self.mask(x[0]), line 65: the Sequential's first module, drop.
RunDrop ==
    /\ pc = "decoded"
    /\ mask' = Dropout2d(HeadInput(x))
    /\ trace' = Append(trace, "drop")
    /\ produced' = Append(produced, mask')
    /\ pc' = "dropped"
    /\ UNCHANGED << importVars, callVars, input, x_size, x, output >>

\* mask = self.mask(x[0]), line 65: the Sequential's second module, conv.
RunConv ==
    /\ pc = "dropped"
    /\ mask' = Conv1x1(model.conv, mask)
    /\ trace' = Append(trace, "conv")
    /\ IF mask' = NoTensor
       THEN /\ exc' = "RuntimeError"
            /\ pc' = "raised"
            /\ UNCHANGED produced
       ELSE /\ exc' = exc
            /\ pc' = "masked"
            /\ produced' = Append(produced, mask')
    /\ UNCHANGED << importVars, fn, args, encoder, calls, model,
                    input, x_size, x, output >>

\* if self.full_size_mask: mask = F.interpolate(mask, size=x_size[2:], ...)
Upsample ==
    /\ pc = "masked"
    /\ WantsFullSize(model)
    /\ mask' = Interpolate(mask, SpatialSize(x_size))
    /\ trace' = Append(trace, "interpolate")
    /\ produced' = Append(produced, mask')
    /\ pc' = "upsampled"
    /\ UNCHANGED << importVars, callVars, input, x_size, x, output >>

\* output = {OUTPUT_MASK_KEY: mask}; return output, lines 70-71.
Return ==
    /\ \/ pc = "upsampled"
       \/ pc = "masked" /\ ~WantsFullSize(model)
    /\ output' = [k \in {OUTPUT_MASK_KEY} |-> mask]
    /\ pc' = "returned"
    /\ UNCHANGED << importVars, callVars, input, x_size, x, mask, trace, produced >>

\* The caller drops the model (or the exception) and goes on.
Release ==
    /\ pc \in {"returned", "raised"}
    /\ pc' = "ready"
    /\ fn' = ""
    /\ args' = NoArgs
    /\ encoder' = NoEncoder
    /\ calls' = <<>>
    /\ model' = NoModel
    /\ exc' = ""
    /\ input' = NoTensor
    /\ x_size' = <<>>
    /\ x' = <<>>
    /\ mask' = NoTensor
    /\ output' = <<>>
    /\ trace' = <<>>
    /\ produced' = <<>>
    /\ UNCHANGED importVars

Next ==
    \/ DefineFactory
    \/ ImportDone
    \/ InstantiateBackbone
    \/ AdaptInputChannels
    \/ ReturnModel
    \/ DirectConstruct
    \/ ForwardEnter
    \/ RunEncoder
    \/ RunDecoder
    \/ RunDrop
    \/ RunConv
    \/ Upsample
    \/ Return
    \/ Release

Spec == Init /\ [][Next]_vars

\* ================================================================= claims
Forwarding == pc \in {"sized", "encoded", "decoded", "dropped", "masked",
                      "upsampled", "returned"}
Constructed == pc = "model" \/ Forwarding
InFactory == fn \in Factories /\ pc \in {"backbone", "adapted"}
FromFactory == fn \in Factories /\ (InFactory \/ Constructed)

IsPrefix(p, q) == Len(p) <= Len(q) /\ SubSeq(q, 1, Len(p)) = p

\* The stages of one forward call of model m, in order.
StageOrder(m) ==
    <<"encoder", "decoder", "drop", "conv">>
        \o (IF m.full_size_mask THEN <<"interpolate">> ELSE <<>>)

\* C1: in every forward call the stages run once each in the order encoder,
\* decoder, dropout, 1x1 convolution, then the bilinear upsample if and only
\* if full_size_mask is true; the call returns a dictionary with the single
\* key OUTPUT_MASK_KEY whose value is the mask the last stage produced.
C1_StagesInOrder ==
    /\ IsPrefix(trace, StageOrder(model))
    /\ pc = "returned" =>
         /\ trace = StageOrder(model)
         /\ DOMAIN output = {OUTPUT_MASK_KEY}
         /\ output[OUTPUT_MASK_KEY] = produced[Len(produced)]
         /\ Len(produced) = Len(trace) - 2

\* C1 witness: a forward call of a model with full_size_mask false has
\* returned without the upsample stage.
C1_Witness ==
    /\ pc = "returned"
    /\ ~model.full_size_mask
    /\ trace = <<"encoder", "decoder", "drop", "conv">>

\* C2: with full_size_mask true the returned mask has the height and width
\* of the input as captured before the encoder ran, the input's batch size
\* and the channel count of the head's output; with full_size_mask false it
\* has the height and width of the decoder's first output map.
C2_MaskSize ==
    pc = "returned" =>
        LET m == output[OUTPUT_MASK_KEY] IN
        /\ m.b = input.b
        /\ m.c = produced[2].c
        /\ IF model.full_size_mask
           THEN m.h = input.h /\ m.w = input.w
           ELSE m.h = x[1].h /\ m.w = x[1].w

\* C2 witness: a full-size mask was returned for an input whose height and
\* width differ from each other and from those of the decoder's first map.
C2_Witness ==
    /\ pc = "returned"
    /\ model.full_size_mask
    /\ input.h # input.w
    /\ x[1].h # input.h
    /\ x[1].w # input.w
    /\ output[OUTPUT_MASK_KEY].h = input.h

\* C3: the head reads the decoder's first output map, its convolution takes
\* unet_channels[0] input channels and gives num_classes output channels,
\* and the returned mask has num_classes channels.
C3_HeadChannels ==
    /\ Constructed =>
         /\ model.conv.in = model.decoder_features[1]
         /\ model.conv.out = args.num_classes
    /\ pc \in {"dropped", "masked", "upsampled", "returned"} =>
         /\ produced[1] = x[1]
         /\ produced[1].c = model.conv.in
    /\ pc \in {"masked", "upsampled", "returned"} => mask.c = args.num_classes
    /\ pc = "returned" => output[OUTPUT_MASK_KEY].c = args.num_classes
    /\ exc # "RuntimeError"

\* C3 witness: a model built by a factory for two classes returned a mask.
C3_Witness ==
    /\ pc = "returned"
    /\ fn \in Factories
    /\ args.num_classes = 2
    /\ output[OUTPUT_MASK_KEY].c = 2

\* What a factory called with input_channels ic calls, in order.
FactoryCalls(f, ic) ==
    << BackboneClass(f) >>
        \o (IF ic # 3 THEN <<"change_input_channels">> ELSE <<>>)
        \o <<"UnetSegmentationModel">>

\* C4: a factory calls encoder.change_input_channels(input_channels) if and
\* only if input_channels is not 3, then exactly once, after the backbone is
\* instantiated and before UnetSegmentationModel is constructed; with
\* input_channels 3 the constructor gets the backbone as instantiated.
C4_ChangeIffNot3 ==
    FromFactory =>
        /\ IsPrefix(calls, FactoryCalls(fn, args.input_channels))
        /\ pc = "backbone" => Len(calls) = 1 /\ encoder.changed = 0
        /\ pc = "adapted" =>
             /\ Len(calls) = Len(FactoryCalls(fn, args.input_channels)) - 1
             /\ encoder.changed = (IF args.input_channels # 3 THEN 1 ELSE 0)
             /\ encoder.in_channels = args.input_channels
        /\ Constructed =>
             /\ calls = FactoryCalls(fn, args.input_channels)
             /\ model.encoder = encoder
             /\ model.encoder.changed = (IF args.input_channels # 3 THEN 1 ELSE 0)
             /\ model.encoder.in_channels = args.input_channels

\* C4 witness: a factory called with 1 input channel has constructed its
\* model after one change_input_channels call.
C4_Witness ==
    /\ pc = "model"
    /\ fn \in Factories
    /\ args.input_channels = 1
    /\ model.encoder.changed = 1

\* The keyword arguments the backbone of the running factory was given.
BackboneKwargs(enc) ==
    [pretrained |-> enc.pretrained, layers |-> enc.layers,
     activation |-> enc.activation]

\* C5 (as stated): two factories differ only in the backbone class and in
\* the channel widths, activation and dropout passed to
\* UnetSegmentationModel; so the running factory gives its backbone the
\* keyword arguments any other factory would give with the same arguments.
C5_DifferOnlyInHyperparameters ==
    FromFactory =>
        \A g \in Factories :
            BackboneKwargs(encoder) = BackboneKwargs(Backbone(g, args.pretrained))

\* C5 (amended): factories differ in the backbone class, in the keyword
\* arguments given to the backbone (pretrained and layers=[0,1,2,3,4] for
\* ResNet and DenseNet, pretrained alone for HRNet, neither for
\* EfficientNet, activation=ACT_RELU for b5_unet32_relu alone) and in the
\* channel widths, activation and default dropout passed to
\* UnetSegmentationModel; input_channels, num_classes and dropout are used
\* alike by all, and full_size_mask is left at its default true.
C5_CommonShape ==
    FromFactory =>
        /\ encoder.pretrained =
             (IF fn \in EfficientNetFactories THEN {} ELSE {args.pretrained})
        /\ encoder.layers =
             (IF fn \in ResNetFactories \cup DenseNetFactories
              THEN {<<0, 1, 2, 3, 4>>} ELSE {})
        /\ encoder.activation =
             (IF fn = "b5_unet32_relu" THEN {ACT_RELU} ELSE {})
        /\ pc # "backbone" =>
             /\ encoder.in_channels = args.input_channels
             /\ encoder.changed = (IF args.input_channels = 3 THEN 0 ELSE 1)
        /\ Constructed =>
             /\ model.kind = "UnetSegmentationModel"
             /\ model.encoder = encoder
             /\ model.conv.out = args.num_classes
             /\ args.dropout # {} => args.dropout = {model.dropout}
             /\ args.dropout = {} =>
                  model.dropout = (IF fn = "resnet101_unet64" THEN 50 ELSE 0)
             /\ model.full_size_mask
             /\ Len(model.decoder_features) \in {3, 4}
             /\ model.activation \in {ACT_RELU, ACT_SWISH}

\* C5 witness: an HRNet factory, which requests no layers, has built a model
\* for two classes with the dropout the caller passed.
C5_Witness ==
    /\ pc = "model"
    /\ fn = "hrnet18_unet32"
    /\ encoder.layers = {}
    /\ args.num_classes = 2
    /\ args.dropout = {25}
    /\ model.dropout = 25

\* The names the registry holds.
RegisteredNames == { registry[i].name : i \in 1..Len(registry) }

\* C6: each of the 15 factories (5 ResNet, 4 DenseNet, 3 HRNet, 3
\* EfficientNet) is registered with the Model registry exactly once, under
\* its own function name, and a registered function returns a
\* UnetSegmentationModel.
C6_RegisteredOnce ==
    /\ \A i \in 1..Len(registry) :
         /\ registry[i].name = registry[i].factory
         /\ registry[i].name \in defined
         /\ Cardinality(Registered(registry, registry[i].name)) = 1
    /\ Len(registry) = ipc
    /\ pc # "import" =>
         /\ Len(registry) = 15
         /\ RegisteredNames = Factories
         /\ Cardinality(RegisteredNames \cap ResNetFactories) = 5
         /\ Cardinality(RegisteredNames \cap DenseNetFactories) = 4
         /\ Cardinality(RegisteredNames \cap HRNetFactories) = 3
         /\ Cardinality(RegisteredNames \cap EfficientNetFactories) = 3
    /\ fn # "" /\ fn # "UnetSegmentationModel" =>
         /\ fn \in RegisteredNames
         /\ pc \notin {"backbone", "adapted"} =>
              /\ Constructed
              /\ model.kind = "UnetSegmentationModel"
              /\ exc = ""

\* C6 witness: after the import, the last factory registered has been
\* called through the registry and has returned its model.
C6_Witness ==
    /\ pc = "model"
    /\ fn = registry[15].factory
    /\ fn = "b5_unet32_relu"
    /\ model.kind = "UnetSegmentationModel"

\* C7: UnetSegmentationModel is constructed with unet_channels an int or a
\* list of ints: construction succeeds for both, and the head's input
\* channel count is the width of the decoder's first stage.
C7_IntOrListConstructs ==
    fn = "UnetSegmentationModel" =>
        /\ exc = ""
        /\ Constructed
        /\ model.conv.in = model.decoder_features[1]

\* C8: the pretrained argument of a factory decides whether its backbone is
\* instantiated with pretrained weights: the backbone is constructed with
\* pretrained equal to the argument.
C8_PretrainedForwarded ==
    FromFactory => encoder.pretrained = {args.pretrained}

\* C9: __all__ is UnetSegmentationModel plus the factories registered with
\* @Model: every registered factory is exported, and every exported factory
\* is a registered function defined in the module.
C9_AllIsRegistered ==
    pc # "import" =>
        /\ ModuleAll = {"UnetSegmentationModel"} \cup RegisteredNames
        /\ ModuleAll \subseteq defined
====
